---- MODULE Spec2Model ----
(***************************************************************************)
(* Model of phosphor-led-sysfs' InternalInterface                          *)
(* (src/interfaces/internal_interface.cpp / .hpp): the parsing of a sysfs  *)
(* LED name, the derivation of the D-Bus object path, the `leds` registry  *)
(* and the AddLED / RemoveLED method callbacks.                            *)
(*                                                                         *)
(* Strings are sequences of one-character strings, so that splitting and   *)
(* joining are computed and not assumed.  The two path prefixes DEVPATH    *)
(* and OBJPATH are kept as one opaque leading element each.                *)
(***************************************************************************)
EXTENDS FiniteSets, Integers, Sequences, TLC

\* ------------------------------------------------------------------ bounds
MaxLen == 5      \* longest raw name enumerated by the naming specification
MaxObjs == 2     \* cap on the number of SysfsLed handles ever constructed

\* --------------------------------------------------------------- constants
OBJPATH == <<"/xyz/openbmc_project/led/physical">>
DEVPATH == <<"/sys/class/leds/">>

Chars == {"a", "b", ":", "_"}

\* ------------------------------------------------------------ string tools
\* boost::split(words, name, boost::is_any_of(":")) with the default
\* token_compress_off: every ':' closes a token, adjacent separators give
\* empty tokens, and an empty input gives one empty token.
RECURSIVE SplitFrom(_, _, _, _)
SplitFrom(name, i, cur, words) ==
    IF i > Len(name) THEN Append(words, cur)
    ELSE IF name[i] = ":" THEN SplitFrom(name, i + 1, <<>>, Append(words, cur))
    ELSE SplitFrom(name, i + 1, Append(cur, name[i]), words)

Split(name) == SplitFrom(name, 1, <<>>, <<>>)

\* boost::join(words, "_")
RECURSIVE Join(_, _)
Join(words, sep) ==
    IF Len(words) = 0 THEN <<>>
    ELSE IF Len(words) = 1 THEN words[1]
    ELSE words[1] \o sep \o Join(Tail(words), sep)

\* struct LedDescr, default constructed: three empty strings
LedDescr == [devicename |-> <<>>, color |-> <<>>, function |-> <<>>]

\* InternalInterface::getLedDescr: the three assignments run in order and the
\* first words.at(i) that is out of range ends the function, keeping what
\* was assigned before it.
getLedDescr(name, ledDescr) ==
    LET words == Split(name)
        d0 == [ledDescr EXCEPT !.devicename = words[1]]
        d1 == [d0 EXCEPT !.color = words[2]]
        d2 == [d1 EXCEPT !.function = words[3]]
    IN  IF Len(words) < 1 THEN ledDescr
        ELSE IF Len(words) < 2 THEN d0
        ELSE IF Len(words) < 3 THEN d1
        ELSE d2

\* (mutation) colour appended before function
getDbusName_swapped(ledDescr) ==
    LET w0 == <<ledDescr.devicename>>
        w1 == IF ledDescr.color # <<>> THEN Append(w0, ledDescr.color) ELSE w0
        w2 == IF ledDescr.function # <<>> THEN Append(w1, ledDescr.function) ELSE w1
    IN  Join(w2, <<"_">>)

\* InternalInterface::getDbusName
getDbusName(ledDescr) ==
    LET w0 == <<ledDescr.devicename>>
        w1 == IF ledDescr.function # <<>> THEN Append(w0, ledDescr.function) ELSE w0
        w2 == IF ledDescr.color # <<>> THEN Append(w1, ledDescr.color) ELSE w1
    IN  Join(w2, <<"_">>)

\* objPath = std::string(OBJPATH); objPath /= name;
\* operator/= of sdbusplus::message::object_path appends "/" and the
\* element; the element is taken verbatim (the library's escaping of
\* elements that are not plain identifiers lies outside this repository).
ObjPathOf(name) == OBJPATH \o <<"/">> \o name

\* the object path createLEDPath derives from a raw sysfs name
DerivedPath(ledName) == ObjPathOf(getDbusName(getLedDescr(ledName, LedDescr)))

\* ------------------------------------------------------------------- state
VARIABLES
    fs,         \* paths that exist in the filesystem (what std::filesystem::exists sees)
    leds,       \* InternalInterface::leds: set of [key, value] nodes
    sleds,      \* ids of the SysfsLed handles currently alive
    published,  \* [path, phys]: Physical objects currently registered on the bus
    nobj,       \* number of SysfsLed handles constructed so far (id source)
    alive,      \* FALSE once the process has faulted
    last,       \* the last call made on the interface and how it ended
    raw, stage, descr, dbusName, objPath   \* naming specification: one derivation

vars == <<fs, leds, sleds, published, nobj, alive, last,
          raw, stage, descr, dbusName, objPath>>
regVars == <<fs, leds, sleds, published, nobj, alive, last>>
nameVars == <<raw, stage, descr, dbusName, objPath>>

\* raw sysfs names the registry specification sends
NEmpty == <<>>
NPower == <<"p", "o", "w", "e", "r">>
NXRed == <<"x", ":", "r", "e", "d">>
NXNoColorRed == <<"x", ":", ":", "r", "e", "d">>
NXUnderRed == <<"x", "_", "r", "e", "d">>
NXRedStatus == <<"x", ":", "r", "e", "d", ":", "s", "t", "a", "t", "u", "s">>
Names == {NEmpty, NPower, NXRed, NXNoColorRed}

NULL == "NULL"
SELF == "this"

\* the members of InternalInterface that createLEDPath works on
Reg == [leds |-> leds, sleds |-> sleds, published |-> published, nobj |-> nobj]

\* std::filesystem::exists(fs::path(path))
exists(path) == path \in fs

\* (mutation) insert_or_assign: the new value replaces the one present
emplace_assign(m, key, value) ==
    [map |-> {e \in m : e.key # key} \cup {[key |-> key, value |-> value]},
     dropped |-> {e.value : e \in {x \in m : x.key = key}}]

\* (mutation) a multimap's emplace: always links the node in
emplace_multi(m, key, value) ==
    [map |-> m \cup {[key |-> key, value |-> value]}, dropped |-> {}]

\* std::unordered_map::emplace: a node is built from the arguments and is
\* linked in only when no node with that key is present; otherwise the node,
\* with the value it took over, is destroyed and the map is left alone.
emplace(m, key, value) ==
    IF \E e \in m : e.key = key
    THEN [map |-> m, dropped |-> {value}]
    ELSE [map |-> m \cup {[key |-> key, value |-> value]}, dropped |-> {}]

\* ~Physical of the values in vs: the object leaves the bus and the
\* std::unique_ptr<SysfsLed> it owns is released.
Destroy(r, vs) ==
    [r EXCEPT !.published = {p \in @ : \A v \in vs : p.phys # v.phys},
              !.sleds = @ \ {v.sled : v \in vs}]

\* InternalInterface::createLEDPath, lines 84-96: what runs once the device
\* node was found.  physThrows: the Physical constructor raises an sdbusplus
\* exception.  Result: the members afterwards and whether the exception left
\* the function.  A value records, besides the Physical and its SysfsLed,
\* the raw name it was made for and whether the node existed then.
makeLED(r, ledName, path, physThrows) ==
    LET ledDescr == getLedDescr(ledName, LedDescr)
        dbus == getDbusName(ledDescr)
        objp == ObjPathOf(dbus)
        id == r.nobj + 1
        \* std::make_unique<SysfsLed>(fs::path(path))
        r1 == [r EXCEPT !.nobj = id, !.sleds = @ \cup {id}]
        value == [phys |-> id, sled |-> id, color |-> ledDescr.color,
                  src |-> ledName, node |-> exists(path)]
    IN  IF physThrows
        THEN [reg |-> [r1 EXCEPT !.sleds = @ \ {id}], thrown |-> TRUE]
        ELSE
        LET r2 == [r1 EXCEPT !.published = @ \cup {[path |-> objp, phys |-> id]}]
            res == emplace(r2.leds, objp, value)
        IN  [reg |-> Destroy([r2 EXCEPT !.leds = res.map], res.dropped),
             thrown |-> FALSE]

\* (mutation) the node is linked into the map before the step that raises
createLEDPath_early(r, ledName, physThrows) ==
    IF ~exists(DEVPATH \o ledName) THEN [reg |-> r, thrown |-> FALSE]
    ELSE [reg |-> makeLED(r, ledName, DEVPATH \o ledName, FALSE).reg,
          thrown |-> physThrows]

\* (mutation) createLEDPath without the std::filesystem::exists test
createLEDPath_nocheck(r, ledName, physThrows) ==
    makeLED(r, ledName, DEVPATH \o ledName, physThrows)

\* (mutation) createLEDPath raising instead of returning on a missing node
createLEDPath_raise(r, ledName, physThrows) ==
    IF ~exists(DEVPATH \o ledName) THEN [reg |-> r, thrown |-> TRUE]
    ELSE makeLED(r, ledName, DEVPATH \o ledName, physThrows)

\* InternalInterface::createLEDPath
createLEDPath(r, ledName, physThrows) ==
    LET name == ledName
        path == DEVPATH \o name
    IN  IF ~exists(path) THEN [reg |-> r, thrown |-> FALSE]
        ELSE makeLED(r, name, path, physThrows)

\* InternalInterface::addLED
addLED(r, name, physThrows) == createLEDPath(r, name, physThrows)

\* InternalInterface::removeLED
removeLED(r, name, physThrows) == createLEDPath(r, name, physThrows)

\* --------------------------------------------------------- method callbacks
\* what a callback hands back: the members, the int it returns ("1",
\* "-EINVAL", "error" for the value of sd_bus_error_set, "fault" when the
\* process faulted), where a caught exception came from, and whether
\* addLED/removeLED ran on the object.
Outcome(r, ret, cause, entered) ==
    [reg |-> r, ret |-> ret, cause |-> cause, entered |-> entered]

\* InternalInterface::addLedConfigure.
\*   msg      NullMsg (msg == nullptr) or a message carrying a name
\*   context  NULL or SELF
\*   raise    what goes wrong in this call, if a step able to fail is reached:
\*            "unpack"    message.unpack<std::string>() raises
\*            "construct" the Physical constructor raises
\*            "reply"     new_method_return() / method_return() raises
\*            "fault"     a member call through a null pointer faults at once
\*            "none"      nothing raises; a member call through a null pointer
\*                        runs the body until it touches a member, then faults
\* Constructing sdbusplus::message_t from nullptr gives a message whose
\* unpack raises.  self->addLED(ledName) with self == nullptr is undefined
\* behaviour: createLEDPath touches no member before its early return, so the
\* call either faults or returns when the device node does not exist, and
\* faults when it exists.
addLedConfigure(r, msg, context, raise) ==
    IF msg.null /\ context = NULL
    THEN Outcome(r, "-EINVAL", "none", FALSE)
    ELSE IF msg.null \/ raise = "unpack"
    THEN Outcome(r, "error", "unpack", FALSE)
    ELSE IF context = NULL
    THEN IF raise # "fault" /\ ~exists(DEVPATH \o msg.name)
         THEN IF raise = "reply" THEN Outcome(r, "error", "reply", FALSE)
              ELSE Outcome(r, "1", "none", FALSE)
         ELSE Outcome(r, "fault", "none", FALSE)
    ELSE LET res == addLED(r, msg.name, raise = "construct")
         IN  IF res.thrown THEN Outcome(res.reg, "error", "construct", TRUE)
             ELSE IF raise = "reply" THEN Outcome(res.reg, "error", "reply", TRUE)
             ELSE Outcome(res.reg, "1", "none", TRUE)

\* InternalInterface::removeLedConfigure (same inputs)
removeLedConfigure(r, msg, context, raise) ==
    IF msg.null /\ context = NULL
    THEN Outcome(r, "-EINVAL", "none", FALSE)
    ELSE IF msg.null \/ raise = "unpack"
    THEN Outcome(r, "error", "unpack", FALSE)
    ELSE IF context = NULL
    THEN IF raise # "fault" /\ ~exists(DEVPATH \o msg.name)
         THEN IF raise = "reply" THEN Outcome(r, "error", "reply", FALSE)
              ELSE Outcome(r, "1", "none", FALSE)
         ELSE Outcome(r, "fault", "none", FALSE)
    ELSE LET res == removeLED(r, msg.name, raise = "construct")
         IN  IF res.thrown THEN Outcome(res.reg, "error", "construct", TRUE)
             ELSE IF raise = "reply" THEN Outcome(res.reg, "error", "reply", TRUE)
             ELSE Outcome(res.reg, "1", "none", TRUE)

\* ----------------------------------------------------------------- actions
\* sd_bus_message* msg == nullptr
NullMsg == [null |-> TRUE, name |-> NEmpty]
Msgs == {NullMsg} \cup [null : {FALSE}, name : Names]
Contexts == {NULL, SELF}
Raises == {"none", "unpack", "construct", "reply", "fault"}

\* the failures a callback with these arguments can meet: a step raises only
\* if it is reached, and only a null context makes the member call fault
RaisesFor(msg, context) ==
    IF msg.null THEN {"none"}
    ELSE IF context = NULL THEN Raises \ {"construct"}
    ELSE IF ~exists(DEVPATH \o msg.name) THEN {"none", "unpack", "reply"}
    ELSE Raises \ {"fault"}

Commit(r) ==
    /\ leds' = r.leds
    /\ sleds' = r.sleds
    /\ published' = r.published
    /\ nobj' = r.nobj

\* the record kept of a call: which entry point, with what arguments, how it
\* ended, and, when addLED/removeLED ran on the object, the name it was
\* given and whether that name's device node existed then
Call(op, msg, context, name, out) ==
    [op |-> op, msg |-> IF msg.null THEN NULL ELSE "msg", context |-> context,
     name |-> IF out.entered THEN name ELSE NEmpty,
     node |-> out.entered /\ exists(DEVPATH \o name),
     ret |-> out.ret, cause |-> out.cause, entered |-> out.entered]

\* a direct call of the public addLED
AddLED(n) ==
    /\ alive
    /\ \E physThrows \in (IF exists(DEVPATH \o n) THEN BOOLEAN ELSE {FALSE}) :
          LET res == addLED(Reg, n, physThrows)
          IN  /\ res.reg.nobj <= MaxObjs
              /\ Commit(res.reg)
              /\ last' = Call("addLED", [null |-> FALSE], SELF, n,
                              Outcome(res.reg, IF res.thrown THEN "throw" ELSE "return",
                                      IF res.thrown THEN "construct" ELSE "none", TRUE))
    /\ UNCHANGED <<fs, alive>>
    /\ UNCHANGED nameVars

\* a direct call of the public removeLED
RemoveLED(n) ==
    /\ alive
    /\ \E physThrows \in (IF exists(DEVPATH \o n) THEN BOOLEAN ELSE {FALSE}) :
          LET res == removeLED(Reg, n, physThrows)
          IN  /\ res.reg.nobj <= MaxObjs
              /\ Commit(res.reg)
              /\ last' = Call("removeLED", [null |-> FALSE], SELF, n,
                              Outcome(res.reg, IF res.thrown THEN "throw" ELSE "return",
                                      IF res.thrown THEN "construct" ELSE "none", TRUE))
    /\ UNCHANGED <<fs, alive>>
    /\ UNCHANGED nameVars

\* the bus dispatches an AddLED method call
AddLedConfigure ==
    /\ alive
    /\ \E msg \in Msgs, context \in Contexts :
       \E raise \in RaisesFor(msg, context) :
          LET out == addLedConfigure(Reg, msg, context, raise)
          IN  /\ out.reg.nobj <= MaxObjs
              /\ Commit(out.reg)
              /\ alive' = (out.ret # "fault")
              /\ last' = Call("AddLED", msg, context,
                              msg.name, out)
    /\ UNCHANGED fs
    /\ UNCHANGED nameVars

\* the bus dispatches a RemoveLED method call
RemoveLedConfigure ==
    /\ alive
    /\ \E msg \in Msgs, context \in Contexts :
       \E raise \in RaisesFor(msg, context) :
          LET out == removeLedConfigure(Reg, msg, context, raise)
          IN  /\ out.reg.nobj <= MaxObjs
              /\ Commit(out.reg)
              /\ alive' = (out.ret # "fault")
              /\ last' = Call("RemoveLED", msg, context,
                              msg.name, out)
    /\ UNCHANGED fs
    /\ UNCHANGED nameVars

\* the kernel creates a directory under /sys/class/leds/ (or the class itself)
Plug(n) ==
    /\ DEVPATH \o n \notin fs
    /\ n # NEmpty => DEVPATH \in fs
    /\ fs' = fs \cup {DEVPATH \o n}
    /\ UNCHANGED <<leds, sleds, published, nobj, alive, last>>
    /\ UNCHANGED nameVars

\* the kernel removes it again
Unplug(n) ==
    /\ DEVPATH \o n \in fs
    /\ n = NEmpty => fs = {DEVPATH}
    /\ fs' = fs \ {DEVPATH \o n}
    /\ UNCHANGED <<leds, sleds, published, nobj, alive, last>>
    /\ UNCHANGED nameVars

NoCall ==
    [op |-> "none", msg |-> NULL, context |-> NULL, name |-> NEmpty,
     node |-> FALSE, ret |-> "none", cause |-> "none", entered |-> FALSE]

\* InternalInterface::InternalInterface: an empty registry on a live bus
Init ==
    /\ fs = {DEVPATH}
    /\ leds = {}
    /\ sleds = {}
    /\ published = {}
    /\ nobj = 0
    /\ alive = TRUE
    /\ last = NoCall
    /\ raw = NEmpty
    /\ stage = "idle"
    /\ descr = LedDescr
    /\ dbusName = <<>>
    /\ objPath = <<>>

Next ==
    \/ \E n \in Names : AddLED(n)
    \/ \E n \in Names : RemoveLED(n)
    \/ AddLedConfigure
    \/ RemoveLedConfigure
    \/ \E n \in Names : Plug(n)
    \/ \E n \in Names : Unplug(n)

Spec == Init /\ [][Next]_vars

\* ------------------------------------------------- naming specification
\* One derivation of an object path, step by step as createLEDPath does it
\* (lines 84-91), for every raw name up to MaxLen characters.
NFront == <<"f", "r", "o", "n", "t", ":", "b", "l", "u", "e", ":", "f", "a", "u", "l", "t">>
NFan == <<"f", "a", "n", "1", ":", "g", "r", "e", "e", "n">>
NameInputs ==
    UNION {[1..n -> Chars] : n \in 0..MaxLen}
        \cup Names \cup {NXUnderRed, NXRedStatus, NFront, NFan}

Parse ==
    /\ stage = "raw"
    /\ descr' = getLedDescr(raw, LedDescr)
    /\ stage' = "parsed"
    /\ UNCHANGED <<raw, dbusName, objPath>>
    /\ UNCHANGED regVars

Format ==
    /\ stage = "parsed"
    /\ dbusName' = getDbusName(descr)
    /\ stage' = "named"
    /\ UNCHANGED <<raw, descr, objPath>>
    /\ UNCHANGED regVars

MakePath ==
    /\ stage = "named"
    /\ objPath' = ObjPathOf(dbusName)
    /\ stage' = "done"
    /\ UNCHANGED <<raw, descr, dbusName>>
    /\ UNCHANGED regVars

InitName ==
    /\ raw \in NameInputs
    /\ fs = {DEVPATH, DEVPATH \o raw}
    /\ leds = {}
    /\ sleds = {}
    /\ published = {}
    /\ nobj = 0
    /\ alive = TRUE
    /\ last = NoCall
    /\ stage = "raw"
    /\ descr = LedDescr
    /\ dbusName = <<>>
    /\ objPath = <<>>

\* addLED(raw) on the empty registry, with the device node of raw present
AddDerived ==
    /\ stage = "done"
    /\ LET res == addLED(Reg, raw, FALSE)
       IN  Commit(res.reg)
    /\ stage' = "added"
    /\ UNCHANGED <<fs, alive, last>>
    /\ UNCHANGED <<raw, descr, dbusName, objPath>>

NextName == Parse \/ Format \/ MakePath \/ AddDerived

SpecName == InitName /\ [][NextName]_vars

\* ------------------------------------------------------------------ claims
Keys(m) == {e.key : e \in m}
At(m, k) == {e \in m : e.key = k}

\* A step that changes anything but the filesystem is a call on the
\* interface, and last' describes it.  (A call that changes nothing, not
\* even last, repeats the previous call with no effect: a stuttering step.)
callVars == <<leds, sleds, published, nobj, alive, last>>
Called == callVars' # callVars
\* this step is addLED(n) running on the object, called directly or from the
\* AddLED callback; likewise removeLED(n)
AddCall(n) ==
    Called /\ last'.op \in {"addLED", "AddLED"} /\ last'.entered /\ last'.name = n
RemoveCall(n) ==
    Called /\ last'.op \in {"removeLED", "RemoveLED"} /\ last'.entered /\ last'.name = n
\* this step is one dispatch of a method callback
Request == Called /\ last'.op \in {"AddLED", "RemoveLED"}

\* the segments of a raw name, read off the positions of its ':' characters
Colons(n) == {i \in 1..Len(n) : n[i] = ":"}
ColonNo(n, k) ==
    IF k = 0 THEN 0
    ELSE IF Cardinality(Colons(n)) < k THEN Len(n) + 1
    ELSE CHOOSE i \in Colons(n) : Cardinality({j \in Colons(n) : j < i}) = k - 1
Segment(n, k) ==
    IF Cardinality(Colons(n)) < k THEN <<>>
    ELSE SubSeq(n, ColonNo(n, k) + 1, ColonNo(n, k + 1) - 1)
ExpectedId(n) ==
    LET dev == Segment(n, 0)
        col == Segment(n, 1)
        fun == Segment(n, 2)
    IN  dev \o (IF fun # <<>> THEN <<"_">> \o fun ELSE <<>>)
            \o (IF col # <<>> THEN <<"_">> \o col ELSE <<>>)
ExpectedPath(n) == <<"/xyz/openbmc_project/led/physical", "/">> \o ExpectedId(n)

\* the names with a device name; the statements found violated below are
\* taken over these, so that no violation rests on what happens to the empty
\* name (C6)
Named == {n \in Names : Segment(n, 0) # <<>>}

\* C1: removeLED(n), called directly or through RemoveLED, erases the entry
\* at the object path derived from n when there is one, releasing its device
\* handle and taking it off the bus, and leaves the registry unchanged when
\* there is none.
C1_RemoveErases ==
    [][\A n \in Named : RemoveCall(n) /\ last'.cause # "construct" =>
          LET k == DerivedPath(n)
          IN  IF k \in Keys(leds)
              THEN /\ k \notin Keys(leds')
                   /\ \A e \in At(leds, k) :
                         /\ e.value.sled \notin sleds'
                         /\ \A p \in published' : p.phys # e.value.phys
              ELSE leds' = leds]_vars

\* C2: addLED(n) and removeLED(n) for a name whose device node does not exist
\* leave the registry as it was and construct no handle and no control
\* object; every entry of the registry was made by a call for its raw name
\* at whose time the device node existed.
C2_MissingNodeNoEffect ==
    [][/\ \A n \in Names :
             (AddCall(n) \/ RemoveCall(n)) /\ ~exists(DEVPATH \o n) =>
                 /\ leds' = leds
                 /\ nobj' = nobj
                 /\ sleds' = sleds
                 /\ published' = published
       /\ Called => \A e \in leds' : e.value.node /\ e.key = DerivedPath(e.value.src)]_vars

\* an add or remove for a missing node ran against a registry that holds entries
C2_Witness ==
    /\ last.op \in {"addLED", "removeLED", "AddLED", "RemoveLED"}
    /\ last.entered
    /\ ~last.node
    /\ last.ret \in {"return", "1"}
    /\ leds # {}

\* C3 as stated: an add whose derived object path already has an entry
\* replaces it; afterwards the entry holds the control object and handle the
\* second call constructed and the first call's handle is destroyed.
C3_LastWriterWins ==
    [][\A n \in Named :
          AddCall(n) /\ exists(DEVPATH \o n) /\ last'.cause # "construct"
             /\ DerivedPath(n) \in Keys(leds) =>
                /\ \A e \in At(leds', DerivedPath(n)) :
                      e.value.phys = nobj' /\ e.value.sled = nobj'
                /\ \A e \in At(leds, DerivedPath(n)) : e.value.sled \notin sleds']_vars

\* C3 amended: an add whose derived object path already has an entry keeps
\* that entry, with the control object and the handle of the call that made
\* it still alive and on the bus; the handle and control object constructed
\* by the second call are destroyed before it returns (first writer wins).
C3_FirstWriterWins ==
    [][\A n \in Names :
          AddCall(n) /\ exists(DEVPATH \o n) /\ DerivedPath(n) \in Keys(leds) =>
                /\ leds' = leds
                /\ nobj' = nobj + 1
                /\ nobj' \notin sleds'
                /\ \A p \in published' : p.phys # nobj'
                /\ \A e \in At(leds', DerivedPath(n)) :
                      /\ e.value.sled \in sleds'
                      /\ [path |-> e.key, phys |-> e.value.phys] \in published']_vars

\* a direct addLED returned while an older entry sits at its object path
C3_Witness ==
    /\ last.op = "addLED"
    /\ last.ret = "return"
    /\ last.node
    /\ \E e \in At(leds, DerivedPath(last.name)) : e.value.phys < nobj

\* C4: addLED(n) for an existing device node, once it has returned, leaves
\* exactly one entry at OBJPATH/CanonicalId(n), and performing it again gives
\* the same set of keys.
C4_AddIdempotentOnKeys ==
    [][\A n \in Names :
          AddCall(n) /\ exists(DEVPATH \o n) /\ last'.cause # "construct" =>
             LET again == addLED(Reg', n, FALSE).reg
             IN  /\ Cardinality(At(leds', ExpectedPath(n))) = 1
                 /\ Keys(again.leds) = Keys(leds')
                 /\ Cardinality(again.leds) = Cardinality(leds')
                 /\ DerivedPath(n) \in Keys(leds) => Keys(leds') = Keys(leds)]_vars

\* the AddLED callback succeeded a second time for a path already registered
C4_Witness ==
    /\ last.op = "AddLED"
    /\ last.ret = "1"
    /\ last.entered
    /\ last.node
    /\ Cardinality(At(leds, DerivedPath(last.name))) = 1
    /\ \A e \in At(leds, DerivedPath(last.name)) : e.value.phys < nobj

\* C5: the object path add uses as key is OBJPATH "/" id, id being segment 0,
\* then segment 2 if non-empty, then segment 1 if non-empty, joined by '_';
\* absent segments are empty and segments after the third are ignored.
C5_KeyIsCanonicalPath ==
    /\ stage \in {"parsed", "named", "done", "added"} =>
          /\ descr.devicename = Segment(raw, 0)
          /\ descr.color = Segment(raw, 1)
          /\ descr.function = Segment(raw, 2)
    /\ stage \in {"named", "done", "added"} =>
          /\ dbusName = ExpectedId(raw)
          /\ Colons(raw) = {} => dbusName = raw
    /\ stage \in {"done", "added"} => objPath = ExpectedPath(raw)
    /\ stage = "added" => Keys(leds) = {ExpectedPath(raw)}
    /\ stage = "added" /\ raw = NFront =>
          Keys(leds) = {<<"/xyz/openbmc_project/led/physical", "/",
                          "f", "r", "o", "n", "t", "_", "f", "a", "u", "l", "t",
                          "_", "b", "l", "u", "e">>}

\* a name of more than three segments, with function and colour, was added
C5_Witness ==
    /\ stage = "added"
    /\ Cardinality(Colons(raw)) >= 3
    /\ descr.color # <<>>
    /\ descr.function # <<>>
    /\ leds # {}

\* C6: a call for a raw name whose deviceName is empty (the empty string in
\* particular) leaves the registry unchanged, and no entry ever sits at the
\* path with the empty CanonicalId.
C6_EmptyNameRejected ==
    [][/\ \A n \in Names :
             (AddCall(n) \/ RemoveCall(n))
                /\ getLedDescr(n, LedDescr).devicename = <<>> => leds' = leds
       /\ ObjPathOf(<<>>) \notin Keys(leds')]_vars

\* C7: a callback invoked with a null context returns -EINVAL and neither
\* addLED nor removeLED runs.
C7_NullContextRejected ==
    last.op \in {"AddLED", "RemoveLED"} /\ last.context = NULL =>
        last.ret = "-EINVAL" /\ ~last.entered

\* C8 as stated: a request for a name whose device node does not exist ends
\* in a DeviceNotFound error reply.
C8_MissingNodeIsError ==
    last.op \in {"AddLED", "RemoveLED"} /\ last.entered /\ ~last.node =>
        last.ret = "error" /\ last.cause = "DeviceNotFound"

\* C8 amended: a request for a name whose device node does not exist ends
\* like a successful one: createLEDPath only logs and returns, the callback
\* sends the method return and returns 1; the only error reply possible is
\* the one for an exception raised while sending that reply.
C8_MissingNodeIsSilent ==
    last.op \in {"AddLED", "RemoveLED"} /\ last.entered /\ ~last.node =>
        \/ last.ret = "1" /\ last.cause = "none"
        \/ last.ret = "error" /\ last.cause = "reply"

\* the AddLED callback answered success for a missing node
C8_Witness ==
    /\ last.op = "AddLED"
    /\ last.entered
    /\ ~last.node
    /\ last.name = NPower
    /\ last.ret = "1"

\* what the bus shows for the entries of a registry
BusOf(m) == {[path |-> e.key, phys |-> e.value.phys] : e \in m}

\* C9 as stated: a request either completes, with success returned, or leaves
\* registry and bus as they were; one that ends in an error reply has not
\* changed the registry; after every request the registry keys are the
\* published paths.
C9_RequestsAtomic ==
    [][Request /\ (last'.entered => last'.name \in Named) =>
          /\ last'.ret = "1" \/ (leds' = leds /\ published' = published)
          /\ last'.ret = "error" => leds' = leds
          /\ Keys(leds') = {p.path : p \in published'}]_vars

\* C9 amended: a request that ends in an error reply because unpacking the
\* argument or constructing the control object failed has changed neither
\* registry nor bus; a failure while sending the reply comes after the
\* registry was updated and undoes nothing; after every request the objects
\* on the bus are exactly those the registry holds, and the live handles are
\* exactly theirs.
C9_AbortBeforeMutation ==
    [][Request =>
          /\ last'.cause \in {"unpack", "construct"} =>
                leds' = leds /\ published' = published /\ sleds' = sleds
          /\ last'.ret = "-EINVAL" =>
                leds' = leds /\ published' = published /\ sleds' = sleds
          /\ published' = BusOf(leds')
          /\ sleds' = {e.value.sled : e \in leds'}]_vars

\* a request added an entry and then failed to send its reply
C9_Witness ==
    /\ last.op \in {"AddLED", "RemoveLED"}
    /\ last.ret = "error"
    /\ last.cause = "reply"
    /\ last.node
    /\ \E e \in leds : e.value.phys = nobj /\ e.value.src = last.name

\* C10: two distinct raw names with existing device nodes never share an
\* object path: after addLED(n) has returned for an existing node, the entry
\* at the path derived from n is the one made for n.
C10_OnePathPerLED ==
    [][\A n \in Named :
          AddCall(n) /\ exists(DEVPATH \o n) /\ last'.cause # "construct" =>
             \E e \in At(leds', DerivedPath(n)) : e.value.src = n]_vars

====
